---- MODULE Spec2Model ----
(***************************************************************************)
(* Model of the garden planner: Garden.__init__ (companion expansion),    *)
(* Garden.get_target_yields, and main.setup_problem with its helpers,     *)
(* followed by the primary solve and the sensitivity re-run of __main__.  *)
(*                                                                         *)
(* An LpVariable is modelled by its name, a linear expression by the list  *)
(* of its terms <<coefficient, variable>>, a constraint by a record        *)
(* [name, lhs, sense, rhs].  Variable and constraint names are built with  *)
(* the same string formatting the code uses.                               *)
(***************************************************************************)
EXTENDS Integers, Sequences, FiniteSets, TLC

VARIABLES pc, garden, crops, prob, prob_s, sol_status, sol_status_s

vars == <<pc, garden, crops, prob, prob_s, sol_status, sol_status_s>>

\* ------------------------------------------------------------------ bounds
MaxWeeks == 4
MaxLifespan == 4

\* ------------------------------------------------------------ the inputs
\* The plant library: two plant files.  Yield, water use and nitrogen delta
\* are fixed per file, and so is the lifespan of the short-lived B; the
\* lifespan of A, the flags and the companions vary.

PlantYield == [A |-> 10, B |-> 3]
PlantWater == [A |-> 2, B |-> 1]
PlantDeltaN == [A |-> -1, B |-> 2]

OtherName(n) == IF n = "A" THEN "B" ELSE "A"

PlantLifespans(n) == IF n = "A" THEN 1..MaxLifespan ELSE {2}

\* One plant file's content, with is_compound set as garden.py line 52 does.
PlantFiles(n) ==
    { [name |-> n, companions |-> comp, greywater_ok |-> g,
       yield |-> PlantYield[n], water_use |-> PlantWater[n],
       delta_n |-> PlantDeltaN[n], lifespan |-> l, is_cover_crop |-> cov,
       is_compound |-> FALSE] :
         comp \in {<<>>, <<OtherName(n)>>}, g \in BOOLEAN,
         l \in PlantLifespans(n), cov \in BOOLEAN }

\* The yield targets of the garden file: with and without the optional keys.
\* max_yield_pct is held in percent.
YieldLists ==
    { <<[plant |-> "A", min_yield |-> 5, max_yield |-> 50, max_yield_pct |-> 50],
        [plant |-> "B", min_yield |-> 1]>> }

\* Rainwater is drawn from even values, so that "* 0.5" is exact in integers.
GardenFiles ==
    { [sqft |-> 10, weeks |-> w, greywater |-> 1, rainwater |-> 40, yields |-> y] :
        w \in 1..MaxWeeks, y \in YieldLists }

\* ------------------------------------------------------- list utilities
RECURSIVE Flatten(_)
Flatten(ss) == IF ss = <<>> THEN <<>> ELSE Head(ss) \o Flatten(Tail(ss))

\* Python range(a, b).
range(a, b) == [i \in 1..(IF b > a THEN b - a ELSE 0) |-> a + i - 1]

\* Python max of two numbers.
max(a, b) == IF a >= b THEN a ELSE b

\* ------------------------------------------------------------ garden.py
\* "c[name] in crop[companions]"
InList(x, list) == \E i \in 1..Len(list) : list[i] = x

\* The companions of crop, in catalog order.
companions_of(crop, cs) ==
    SelectSeq(cs, LAMBDA c : InList(c.name, crop.companions))

\* A compound entry that counts one planting of each plant, whatever the
\* lifespans (variant of compound_crop).
compound_crop_single_planting(crop, companion) ==
    LET longest_lifespan == max(crop.lifespan, companion.lifespan)
    IN [name |-> crop.name \o "-" \o companion.name,
        plant_1_name |-> crop.name,
        plant_2_name |-> companion.name,
        companions |-> <<>>,
        delta_n |-> crop.delta_n + companion.delta_n,
        water_use |-> crop.water_use + companion.water_use,
        greywater_ok |-> crop.greywater_ok /\ companion.greywater_ok,
        yield |-> crop.yield + companion.yield,
        plant_1_yield |-> crop.yield,
        plant_2_yield |-> companion.yield,
        is_compound |-> TRUE,
        lifespan |-> longest_lifespan,
        is_cover_crop |-> crop.is_cover_crop /\ companion.is_cover_crop]

\* The compound entry built from crop and companion.
compound_crop(crop, companion) ==
    LET longest_lifespan == max(crop.lifespan, companion.lifespan)
        crop_multiplier == longest_lifespan \div crop.lifespan
        companion_multiplier == longest_lifespan \div companion.lifespan
        crop_yield == crop_multiplier * crop.yield
        companion_yield == companion_multiplier * companion.yield
    IN [name |-> crop.name \o "-" \o companion.name,
        plant_1_name |-> crop.name,
        plant_2_name |-> companion.name,
        companions |-> <<>>,
        delta_n |-> crop.delta_n * crop_multiplier
                      + companion.delta_n * companion_multiplier,
        water_use |-> crop.water_use + companion.water_use,
        greywater_ok |-> crop.greywater_ok /\ companion.greywater_ok,
        yield |-> crop_yield + companion_yield,
        plant_1_yield |-> crop_yield,
        plant_2_yield |-> companion_yield,
        is_compound |-> TRUE,
        lifespan |-> longest_lifespan,
        is_cover_crop |-> crop.is_cover_crop /\ companion.is_cover_crop]

\* Compound crops with a pair skipped when its reverse was generated from
\* an earlier crop (variant of compound_crops).
compound_crops_unordered(cs) ==
    Flatten([i \in 1..Len(cs) |->
        LET companions ==
              SelectSeq(companions_of(cs[i], cs),
                        LAMBDA c : ~\E j \in 1..(i - 1) :
                                      cs[j].name = c.name /\ InList(cs[i].name, c.companions))
        IN [j \in 1..Len(companions) |-> compound_crop(cs[i], companions[j])]])

\* The compound crops generated from the loaded crops cs.
compound_crops(cs) ==
    Flatten([i \in 1..Len(cs) |->
        LET companions == companions_of(cs[i], cs)
        IN [j \in 1..Len(companions) |-> compound_crop(cs[i], companions[j])]])

\* A Python dict as the list of its <<key, value>> items in insertion order;
\* d[k] = v replaces the value of an existing key in place.
dict_set(d, k, v) ==
    IF \E i \in 1..Len(d) : d[i][1] = k
    THEN [i \in 1..Len(d) |-> IF d[i][1] = k THEN <<k, v>> ELSE d[i]]
    ELSE Append(d, <<k, v>>)

\* An iteration that credits the whole yield of a compound entry to the
\* target (variant of target_yields_step).
target_yields_step_whole_yield(yields, c, target) ==
    IF ~c.is_compound
    THEN IF c.name = target THEN dict_set(yields, c.name, c.yield) ELSE yields
    ELSE IF c.plant_1_name = target \/ c.plant_2_name = target
         THEN dict_set(yields, c.name, c.yield)
         ELSE yields

\* One iteration of the loop of get_target_yields over crop c.
target_yields_step(yields, c, target) ==
    IF ~c.is_compound
    THEN IF c.name = target THEN dict_set(yields, c.name, c.yield) ELSE yields
    ELSE IF c.plant_1_name = target THEN dict_set(yields, c.name, c.plant_1_yield)
         ELSE IF c.plant_2_name = target
              THEN dict_set(yields, c.name, c.plant_2_yield)
              ELSE yields

RECURSIVE target_yields_loop(_, _, _)
target_yields_loop(yields, cs, target) ==
    IF cs = <<>> THEN yields
    ELSE target_yields_loop(target_yields_step(yields, Head(cs), target),
                            Tail(cs), target)

get_target_yields(cs, target) == target_yields_loop(<<>>, cs, target)

get_plants(cs) == [i \in 1..Len(cs) |-> cs[i].name]

get_greywater_plants(cs) == SelectSeq(cs, LAMBDA c : c.greywater_ok)

get_plant_weeks(g, cs) ==
    Flatten([i \in 1..Len(cs) |->
        [k \in 1..g.weeks |->
            get_plants(cs)[i] \o "_week_" \o ToString(range(0, g.weeks)[k])]])

get_weeks_for_plant(g, plant) ==
    [k \in 1..g.weeks |-> plant.name \o "_week_" \o ToString(range(0, g.weeks)[k])]

\* -------------------------------------------------------------- main.py
\* The module-level num_weeks, set once from the garden file.
num_weeks(g) == g.weeks

get_plant_variable_name(crop, week) == crop \o "_week_" \o ToString(week)

get_variable_names_for_weeks(crop, week_start, week_end) ==
    LET ws == range(week_start, week_end)
    IN [i \in 1..Len(ws) |-> get_plant_variable_name(crop, ws[i])]

\* LpVariable.dicts(name, indices): one variable per index, named after it.
LpVariable_dicts(name, indices) ==
    [k \in {indices[i] : i \in 1..Len(indices)} |-> name \o "_" \o k]

make_plant_vars(g, cs) == LpVariable_dicts("planted", get_plant_weeks(g, cs))

make_fallow_vars(g) == [w \in 0..(num_weeks(g) - 1) |-> "fallow_" \o ToString(w)]

\* The earliest planting taken one week too early (variant of
\* earliest_planting).
earliest_planting_week_early(crop, week) ==
    LET e == week - crop.lifespan
    IN IF e < 0 THEN 0 ELSE e

earliest_planting(crop, week) ==
    LET e == (week - crop.lifespan) + 1
    IN IF e < 0 THEN 0 ELSE e

get_plants_living_in_week(crop, week, plant_vars) ==
    LET names == get_variable_names_for_weeks(crop.name,
                     earliest_planting(crop, week), week + 1)
    IN [i \in 1..Len(names) |-> plant_vars[names[i]]]

\* Linear expressions: lists of <<coefficient, variable>>.
VarSum(vs) == [i \in 1..Len(vs) |-> <<1, vs[i]>>]
Scale(k, e) == [i \in 1..Len(e) |-> <<k * e[i][1], e[i][2]>>]
lpSum(es) == Flatten(es)

Constraint(name, lhs, sense, rhs) ==
    [name |-> name, lhs |-> lhs, sense |-> sense, rhs |-> rhs]

\* total_yield (lines 18-19).
make_total_yield(g, cs, plant_vars) ==
    lpSum([i \in 1..Len(cs) |->
        Scale(cs[i].yield,
              VarSum([k \in 1..g.weeks |-> plant_vars[get_weeks_for_plant(g, cs[i])[k]]]))])

\* nitrogen_expression (lines 20-22).
make_nitrogen_expression(g, cs, plant_vars) ==
    lpSum([i \in 1..Len(cs) |->
        LET names == get_variable_names_for_weeks(cs[i].name, 0, num_weeks(g))
        IN Scale(cs[i].delta_n, VarSum([k \in 1..Len(names) |-> plant_vars[names[k]]]))])

\* The objective total_yield + 0.1 * nitrogen_expression, held in tenths.
\* The fallow penalty of line 24 is computed by the code and never used.
make_objective(total_yield, nitrogen_expression) ==
    Scale(10, total_yield) \o nitrogen_expression

\* A land constraint that lets area go unaccounted (variant of
\* land_constraint).
land_constraint_at_most(g, cs, plant_vars, fallow_vars, w) ==
    LET prev_planting_expressions ==
            [i \in 1..Len(cs) |-> VarSum(get_plants_living_in_week(cs[i], w, plant_vars))]
    IN Constraint("land_constraint_week_" \o ToString(w),
                  lpSum(prev_planting_expressions) \o <<<<1, fallow_vars[w]>>>>,
                  "<=", g.sqft)

\* Land constraint of week w (lines 32-39).  The list week_plantings of
\* line 31 is built by the code and never used.
land_constraint(g, cs, plant_vars, fallow_vars, w) ==
    LET prev_planting_expressions ==
            [i \in 1..Len(cs) |-> VarSum(get_plants_living_in_week(cs[i], w, plant_vars))]
    IN Constraint("land_constraint_week_" \o ToString(w),
                  lpSum(prev_planting_expressions) \o <<<<1, fallow_vars[w]>>>>,
                  "==", g.sqft)

\* Water use of the crops ws in week w.
water_expression(ws, plant_vars, w) ==
    lpSum([i \in 1..Len(ws) |->
        Scale(ws[i].water_use, VarSum(get_plants_living_in_week(ws[i], w, plant_vars)))])

\* A greywater constraint that caps the use instead of forcing it (variant
\* of greywater_constraint).
greywater_constraint_cap(g, cs, plant_vars, w) ==
    Constraint("use_all_greywater_week_" \o ToString(w),
               water_expression(get_greywater_plants(cs), plant_vars, w),
               "<=", g.greywater)

\* Greywater constraint of week w (lines 43-45).
greywater_constraint(g, cs, plant_vars, w) ==
    Constraint("use_all_greywater_week_" \o ToString(w),
               water_expression(get_greywater_plants(cs), plant_vars, w),
               ">=", g.greywater)

\* Total water constraint of week w (lines 47-49).
total_water_constraint(g, cs, plant_vars, w) ==
    Constraint("total_water_constraint_week_" \o ToString(w),
               water_expression(cs, plant_vars, w),
               "<=", g.greywater + g.rainwater)

\* The body of the loop over the weeks (lines 28-49).
week_constraints(g, cs, plant_vars, fallow_vars, w) ==
    << land_constraint(g, cs, plant_vars, fallow_vars, w),
       greywater_constraint(g, cs, plant_vars, w),
       total_water_constraint(g, cs, plant_vars, w) >>

\* The constraints of one yield target (lines 52-61).  The percentage cap
\* sum <= total_yield * pct is held as 100 * sum - pct% * total_yield <= 0.
yield_constraints(g, cs, plant_vars, total_yield, yield_spec) ==
    LET target == yield_spec.plant
        ty == get_target_yields(cs, target)
        sum_contributing_crops ==
            lpSum([i \in 1..Len(ty) |->
                LET names == get_variable_names_for_weeks(ty[i][1], 0, num_weeks(g))
                IN Scale(ty[i][2], VarSum([k \in 1..Len(names) |-> plant_vars[names[k]]]))])
    IN << Constraint(target \o "_min_yield", sum_contributing_crops,
                     ">=", yield_spec.min_yield) >>
       \o (IF "max_yield" \in DOMAIN yield_spec
           THEN << Constraint(target \o "_max_yield", sum_contributing_crops,
                              "<=", yield_spec.max_yield) >>
           ELSE <<>>)
       \o (IF "max_yield_pct" \in DOMAIN yield_spec
           THEN << Constraint(target \o "_max_yield_percent",
                              Scale(100, sum_contributing_crops)
                                \o Scale(-yield_spec.max_yield_pct, total_yield),
                              "<=", 0) >>
           ELSE <<>>)

\* The exemption given to the most recent planting (variant of
\* plants_that_overlap).
plants_that_overlap_drop_last(g, crop, plant_vars) ==
    LET living == get_plants_living_in_week(crop, num_weeks(g) - 1, plant_vars)
    IN IF crop.lifespan <= num_weeks(g) /\ Len(living) > 0
       THEN SubSeq(living, 1, Len(living) - 1)
       ELSE living

\* The exemption given without asking whether the lifespan fits the horizon
\* (variant of plants_that_overlap).
plants_that_overlap_always_exempt(g, crop, plant_vars) ==
    LET living == get_plants_living_in_week(crop, num_weeks(g) - 1, plant_vars)
    IN IF Len(living) > 0 THEN Tail(living) ELSE living

\* The variables summed to zero for crop (lines 67-69).
plants_that_overlap(g, crop, plant_vars) ==
    LET living == get_plants_living_in_week(crop, num_weeks(g) - 1, plant_vars)
    IN IF crop.lifespan <= num_weeks(g) /\ Len(living) > 0
       THEN Tail(living)
       ELSE living

\* The latest-planting constraint put on cover crops too (variant of
\* latest_planting_constraints).
latest_planting_constraints_all_crops(g, crop, plant_vars) ==
    << Constraint("latest_planting_" \o crop.name,
                  VarSum(plants_that_overlap(g, crop, plant_vars)), "==", 0) >>

\* The latest-planting constraints of crop: none for a cover crop (lines 66-70).
latest_planting_constraints(g, crop, plant_vars) ==
    IF ~crop.is_cover_crop
    THEN << Constraint("latest_planting_" \o crop.name,
                       VarSum(plants_that_overlap(g, crop, plant_vars)), "==", 0) >>
    ELSE <<>>

\* setup_problem(garden): the problem with its objective and its constraints
\* in the order they are added.
setup_problem(g, cs) ==
    LET plant_vars == make_plant_vars(g, cs)
        fallow_vars == make_fallow_vars(g)
        total_yield == make_total_yield(g, cs, plant_vars)
        nitrogen_expression == make_nitrogen_expression(g, cs, plant_vars)
        weeks == range(0, num_weeks(g))
    IN [objective |-> make_objective(total_yield, nitrogen_expression),
        constraints |->
            Flatten([k \in 1..Len(weeks) |->
                week_constraints(g, cs, plant_vars, fallow_vars, weeks[k])])
            \o Flatten([k \in 1..Len(g.yields) |->
                yield_constraints(g, cs, plant_vars, total_yield, g.yields[k])])
            \o Flatten([i \in 1..Len(cs) |->
                latest_planting_constraints(g, cs[i], plant_vars)])
            \o << Constraint("nitrogen constraints", nitrogen_expression, ">=", 0) >>]

\* ------------------------------------------------------------- __main__
NoProblem == [objective |-> <<>>, constraints |-> <<>>]

\* The files are loaded: the base crops of the plant files, the garden file.
Init ==
    /\ pc = "loaded"
    /\ garden \in GardenFiles
    /\ crops \in {<<a>> : a \in PlantFiles("A")}
                  \cup {<<a, b>> : a \in PlantFiles("A"), b \in PlantFiles("B")}
    /\ prob = NoProblem
    /\ prob_s = NoProblem
    /\ sol_status = 0
    /\ sol_status_s = 0

\* Garden.__init__, lines 55-80: the compound crops are appended.
GenerateCompoundCrops ==
    /\ pc = "loaded"
    /\ crops' = crops \o compound_crops(crops)
    /\ pc' = "constructed"
    /\ UNCHANGED <<garden, prob, prob_s, sol_status, sol_status_s>>

\* main.py line 112.
SetupPrimary ==
    /\ pc = "constructed"
    /\ prob' = setup_problem(garden, crops)
    /\ pc' = "built"
    /\ UNCHANGED <<garden, crops, prob_s, sol_status, sol_status_s>>

\* The statuses the external solver reports: 1 is optimal.
SolStatuses == {1, -1}

\* main.py lines 115-119: the solve; without an optimal solution the program
\* prints a message and ends.
SolvePrimary ==
    /\ pc = "built"
    /\ \E st \in SolStatuses :
          /\ sol_status' = st
          /\ pc' = IF st # 1 THEN "done" ELSE "solved"
    /\ UNCHANGED <<garden, crops, prob, prob_s, sol_status_s>>

\* main.py line 167, after the report of lines 121-164: the rainwater of
\* the one Garden instance is halved in place (exact on the even inputs).
ScaleRainwater ==
    /\ pc = "solved"
    /\ garden' = [garden EXCEPT !.rainwater = garden.rainwater \div 2]
    /\ pc' = "scaled"
    /\ UNCHANGED <<crops, prob, prob_s, sol_status, sol_status_s>>

\* main.py line 168.
SetupSensitivity ==
    /\ pc = "scaled"
    /\ prob_s' = setup_problem(garden, crops)
    /\ pc' = "built_s"
    /\ UNCHANGED <<garden, crops, prob, sol_status, sol_status_s>>

\* main.py lines 169-188: the second solve, the sensitivity sheet, the save.
SolveSensitivity ==
    /\ pc = "built_s"
    /\ \E st \in SolStatuses : sol_status_s' = st
    /\ pc' = "done"
    /\ UNCHANGED <<garden, crops, prob, prob_s, sol_status>>

Next ==
    \/ GenerateCompoundCrops
    \/ SetupPrimary
    \/ SolvePrimary
    \/ ScaleRainwater
    \/ SetupSensitivity
    \/ SolveSensitivity

Spec == Init /\ [][Next]_vars

\* ------------------------------------------------- vocabulary of the claims
\* The planting variable of catalog entry i for planting week p, the fallow
\* variable of week w, and all the variables of the problem.
PlantVar(i, p) == "planted_" \o crops[i].name \o "_week_" \o ToString(p)
FallowVar(w) == "fallow_" \o ToString(w)
Weeks == 0..(garden.weeks - 1)
Entries == 1..Len(crops)
CropVars(i) == {PlantVar(i, p) : p \in Weeks}
AllPlantVars == UNION {CropVars(i) : i \in Entries}
AllVars == AllPlantVars \cup {FallowVar(w) : w \in Weeks}

\* The planting weeks of entry i that occupy area in week w: a planting of
\* week p occupies weeks p .. p + lifespan - 1.
AliveWeeks(i, w) == {p \in Weeks : p <= w /\ w <= p + crops[i].lifespan - 1}

\* The coefficient of variable v in expression e, and the value of e under
\* the assignment a of values to variables.
RECURSIVE Coef(_, _)
Coef(e, v) ==
    IF e = <<>> THEN 0
    ELSE (IF Head(e)[2] = v THEN Head(e)[1] ELSE 0) + Coef(Tail(e), v)

RECURSIVE Eval(_, _)
Eval(e, a) ==
    IF e = <<>> THEN 0 ELSE Head(e)[1] * a[Head(e)[2]] + Eval(Tail(e), a)

Satisfies(c, a) ==
    LET l == Eval(c.lhs, a)
    IN CASE c.sense = "==" -> l = c.rhs
         [] c.sense = ">=" -> l >= c.rhs
         [] c.sense = "<=" -> l <= c.rhs

\* The constraints of problem pr that carry the name n.
Named(pr, n) == SelectSeq(pr.constraints, LAMBDA c : c.name = n)

\* Expression e is exactly the sum, with coefficient k(v), of the variables vs.
IsSum(e, vs, k(_)) ==
    LET all == AllVars
    IN \A v \in all : Coef(e, v) = IF v \in vs THEN k(v) ELSE 0
One(v) == 1

\* The problems setup_problem has just returned.
JustBuilt ==
    IF pc = "built" THEN {prob} ELSE IF pc = "built_s" THEN {prob_s} ELSE {}

\* The base entry of the catalog with name n.
BaseIndex(n) == CHOOSE i \in Entries : ~crops[i].is_compound /\ crops[i].name = n

LatestPlantingZeroes(pr, i, vs) ==
    LET cs == Named(pr, "latest_planting_" \o crops[i].name)
    IN /\ Len(cs) = 1
       /\ cs[1].sense = "==" /\ cs[1].rhs = 0
       /\ IsSum(cs[1].lhs, vs, One)

FinalWeek == garden.weeks - 1

\* C2 as stated: for a non-cover entry whose lifespan fits the horizon the
\* constraint zeroes the variables alive in the final week except the most
\* recent one (planting week weeks - 1).
C2_ExemptsMostRecent ==
    \A pr \in JustBuilt : \A i \in Entries :
      (~crops[i].is_cover_crop /\ crops[i].lifespan <= garden.weeks) =>
        LatestPlantingZeroes(pr, i,
            {PlantVar(i, p) : p \in AliveWeeks(i, FinalWeek) \ {FinalWeek}})

\* C2 amended: the exempted variable is the earliest of the variables alive
\* in the final week, the planting of week weeks - lifespan, which is the one
\* planting among them that completes its lifespan within the horizon.
C2_ExemptsEarliest ==
    \A pr \in JustBuilt : \A i \in Entries :
      (~crops[i].is_cover_crop /\ crops[i].lifespan <= garden.weeks) =>
        LatestPlantingZeroes(pr, i,
            {PlantVar(i, p) : p \in AliveWeeks(i, FinalWeek)
                                      \ {garden.weeks - crops[i].lifespan}})

\* A non-cover entry of lifespan 2 or more that fits the horizon: the
\* earliest and the most recent alive variable differ.
C2_Witness ==
    /\ pc = "built"
    /\ \E i \in Entries :
         /\ ~crops[i].is_cover_crop
         /\ crops[i].lifespan >= 2 /\ crops[i].lifespan < garden.weeks
         /\ Len(Named(prob, "latest_planting_" \o crops[i].name)) = 1

\* The assignments tried against the constraints: the planting variables S
\* of one entry are 1, every other variable is 0.
PlantingAssignment(S) ==
    LET all == AllVars
    IN [v \in all |-> IF v \in S THEN 1 ELSE 0]

LatestPlantingNames == {"latest_planting_" \o crops[i].name : i \in Entries}

\* The latest_planting constraints of problem pr.
LatestPlanting(pr) ==
    LET names == LatestPlantingNames
    IN SelectSeq(pr.constraints, LAMBDA c : c.name \in names)

\* The planting weeks at which assignment a plants a non-cover entry too
\* late to complete its lifespan within the horizon.
TooLate(a) ==
    {<<i, p>> \in Entries \X Weeks :
        /\ ~crops[i].is_cover_crop
        /\ a[PlantVar(i, p)] > 0
        /\ p + crops[i].lifespan > garden.weeks}

\* C3: under every assignment that satisfies all latest_planting
\* constraints, a non-cover entry planted with positive area in week p has
\* p + lifespan <= weeks.
C3_PlantedOnlyIfHarvestable ==
    \A pr \in JustBuilt :
      LET lp == LatestPlanting(pr)
      IN \A i \in Entries : \A S \in SUBSET CropVars(i) :
           LET a == PlantingAssignment(S)
           IN (\A k \in 1..Len(lp) : Satisfies(lp[k], a)) => TooLate(a) = {}

\* A non-cover entry that fits the horizon with room to spare, and one that
\* does not fit it at all, each under a latest_planting constraint.
C3_Witness ==
    /\ pc = "built"
    /\ \E i, j \in Entries :
         /\ ~crops[i].is_cover_crop /\ ~crops[j].is_cover_crop
         /\ crops[i].lifespan >= 2 /\ crops[i].lifespan < garden.weeks
         /\ crops[j].lifespan > garden.weeks
         /\ \A k \in 1..Len(LatestPlanting(prob)) :
              Satisfies(LatestPlanting(prob)[k], PlantingAssignment({PlantVar(i, 0)}))

\* C4: no latest_planting constraint exists for a cover-crop entry, and a
\* non-cover entry whose lifespan exceeds the horizon has all its planting
\* variables of weeks 0 .. weeks - 1 summed to zero, none exempted.
C4_CoverExemptLongExcluded ==
    \A pr \in JustBuilt : \A i \in Entries :
      /\ crops[i].is_cover_crop
           => Len(Named(pr, "latest_planting_" \o crops[i].name)) = 0
      /\ (~crops[i].is_cover_crop /\ crops[i].lifespan > garden.weeks)
           => LatestPlantingZeroes(pr, i, CropVars(i))

\* A cover crop and a non-cover crop, both outliving a horizon of 2 weeks
\* or more.
C4_Witness ==
    /\ pc = "built"
    /\ garden.weeks >= 2
    /\ \E i, j \in Entries :
         /\ crops[i].is_cover_crop /\ crops[i].lifespan > garden.weeks
         /\ ~crops[j].is_cover_crop /\ crops[j].lifespan > garden.weeks
         /\ Len(Named(prob, "latest_planting_" \o crops[j].name)) = 1

\* C5: the sensitivity run works on a copy, so no step of the program
\* changes the garden parameters the primary problem was built from.
C5_GardenParametersKept == [][garden' = garden]_vars

\* The sum of the values assignment a gives to the variables S.
RECURSIVE SumOver(_, _)
SumOver(S, a) ==
    IF S = {} THEN 0
    ELSE LET v == CHOOSE x \in S : TRUE IN a[v] + SumOver(S \ {v}, a)

\* The assignments tried against the land constraints: one planting, of
\* area x in week p of entry i, and the same fallow area f every week.
LandAssignment(i, p, x, f) ==
    LET plant == AllPlantVars
        all == AllVars
        planted == PlantVar(i, p)
    IN [v \in all |-> IF v = planted THEN x ELSE IF v \in plant THEN 0 ELSE f]

C7_CompoundAttributes ==
    pc # "loaded" =>
      \A k \in Entries : crops[k].is_compound =>
        LET e == crops[k]
            C == crops[BaseIndex(e.plant_1_name)]
            P == crops[BaseIndex(e.plant_2_name)]
            L == IF C.lifespan > P.lifespan THEN C.lifespan ELSE P.lifespan
        IN /\ e.lifespan = L
           /\ e.plant_1_yield = (L \div C.lifespan) * C.yield
           /\ e.plant_2_yield = (L \div P.lifespan) * P.yield
           /\ e.yield = e.plant_1_yield + e.plant_2_yield
           /\ e.delta_n = C.delta_n * (L \div C.lifespan)
                            + P.delta_n * (L \div P.lifespan)
           /\ e.water_use = C.water_use + P.water_use
           /\ e.greywater_ok = (C.greywater_ok /\ P.greywater_ok)
           /\ e.is_cover_crop = (C.is_cover_crop /\ P.is_cover_crop)
           /\ e.companions = <<>>

\* A (lifespan 4, yield 10) with companion B (lifespan 2, yield 3) gives
\* A-B with lifespan 4, plant_1_yield 10, plant_2_yield 6, yield 16.
C7_Witness ==
    /\ pc = "constructed"
    /\ \E k \in Entries :
         /\ crops[k].is_compound
         /\ crops[k].name = "A-B"
         /\ crops[BaseIndex("A")].lifespan = 4 /\ crops[BaseIndex("A")].yield = 10
         /\ crops[BaseIndex("B")].lifespan = 2 /\ crops[BaseIndex("B")].yield = 3
         /\ crops[k].lifespan = 4
         /\ crops[k].plant_1_yield = 10
         /\ crops[k].plant_2_yield = 6
         /\ crops[k].yield = 16

\* The catalog cs holds its base entries first, then exactly one compound
\* entry per ordered pair (C, P) of base entries with P named by C, each
\* made of two base entries.
OnePerOrderedPair(cs) ==
    LET base == SelectSeq(cs, LAMBDA c : ~c.is_compound)
        comp == SelectSeq(cs, LAMBDA c : c.is_compound)
    IN /\ cs = base \o comp
       /\ \A i, j \in 1..Len(base) :
            Cardinality({k \in 1..Len(comp) :
                            /\ comp[k].plant_1_name = base[i].name
                            /\ comp[k].plant_2_name = base[j].name})
              = IF InList(base[j].name, base[i].companions) THEN 1 ELSE 0
       /\ \A k \in 1..Len(comp) :
            /\ \E i \in 1..Len(base) : base[i].name = comp[k].plant_1_name
            /\ \E j \in 1..Len(base) : base[j].name = comp[k].plant_2_name
       /\ (\A i, j \in 1..Len(base) : ~InList(base[j].name, base[i].companions))
            => comp = <<>>

\* C8: the expansion appends exactly one compound entry per ordered
\* companion pair of base crops and nothing else, keeps A-B and B-A apart,
\* expands no compound entry, and leaves the base entries as they were.
C8_OnePerOrderedPair ==
    [][ /\ SubSeq(crops', 1, Len(crops)) = crops
        /\ pc = "loaded" =>
             /\ OnePerOrderedPair(crops')
             /\ \A k \in (Len(crops) + 1)..Len(crops') : crops'[k].is_compound ]_vars

\* A lists B and B lists A: both A-B and B-A are in the catalog.
C8_Witness ==
    /\ pc = "constructed"
    /\ Len(crops) = 4
    /\ {crops[k].name : k \in Entries} = {"A", "B", "A-B", "B-A"}

\* The entries of the catalog that contribute to target t.
Contributors(t) ==
    {k \in Entries :
        IF crops[k].is_compound
        THEN crops[k].plant_1_name = t \/ crops[k].plant_2_name = t
        ELSE crops[k].name = t}

Targets ==
    {crops[k].name : k \in Entries} \cup {"A", "B", "A-B", "B-A", "tomato"}

\* C9: get_target_yields(t) has one key per contributing entry and no other;
\* a base entry maps to its yield, a compound entry to plant_1_yield when
\* its first plant is t and to plant_2_yield otherwise.
C9_TargetYields ==
    pc = "built" =>
      \A t \in Targets :
        LET ty == get_target_yields(crops, t)
        IN /\ {ty[n][1] : n \in 1..Len(ty)} = {crops[k].name : k \in Contributors(t)}
           /\ Len(ty) = Cardinality(Contributors(t))
           /\ \A n \in 1..Len(ty) : \A k \in Contributors(t) :
                crops[k].name = ty[n][1] =>
                  ty[n][2] = IF ~crops[k].is_compound THEN crops[k].yield
                             ELSE IF crops[k].plant_1_name = t
                                  THEN crops[k].plant_1_yield
                                  ELSE crops[k].plant_2_yield

\* Target B with base B (yield 3) and the compounds A-B and B-A of a
\* lifespan-4 A and a lifespan-2 B: B contributes 6 per unit in either.
\* The minimum-yield constraint of B is built from that mapping.
C9_Witness ==
    /\ pc = "built"
    /\ get_target_yields(crops, "B")
         = << <<"B", 3>>, <<"A-B", 6>>, <<"B-A", 6>> >>
    /\ get_target_yields(crops, "A")
         = << <<"A", 10>>, <<"A-B", 10>>, <<"B-A", 10>> >>
    /\ Len(Named(prob, "B_min_yield")) = 1
    /\ Coef(Named(prob, "B_min_yield")[1].lhs, "planted_A-B_week_0") = 6
    /\ Coef(Named(prob, "B_min_yield")[1].lhs, "planted_A_week_0") = 0

\* The water use of entry i when it may take greywater: a base entry by its
\* own flag, a compound entry when both of its plants may.
GreywaterEntry(i) ==
    IF crops[i].is_compound
    THEN /\ crops[BaseIndex(crops[i].plant_1_name)].greywater_ok
         /\ crops[BaseIndex(crops[i].plant_2_name)].greywater_ok
    ELSE crops[i].greywater_ok

WaterUseOf(v) == crops[CHOOSE i \in Entries : v \in CropVars(i)].water_use

====
